---- MODULE Spec2Model ----
(***************************************************************************)
(* lazyserial: the serial connection worker of src/serial.rs and the       *)
(* coordinator of src/app.rs that opens, feeds and drains it.              *)
(*                                                                         *)
(* open_port creates three mpsc channels (events, write payloads, close    *)
(* signal), spawns a worker thread that owns the device, and returns the   *)
(* SerialHandle (the two senders) and the event receiver.  The model keeps *)
(* one copy of that state per connection and interleaves the worker's      *)
(* steps with the steps of the thread that holds the handle and the        *)
(* receiver.                                                               *)
(*                                                                         *)
(* Three specifications share the definitions: Spec is one connection in   *)
(* the hands of an arbitrary caller; LogSpec is add_output_line on logs    *)
(* around MAX_OUTPUT_LINES; AppSpec is run_inner's loop (key handlers and  *)
(* the tick's drain_serial_events) with the workers it spawns.             *)
(*                                                                         *)
(* std::sync::mpsc semantics used throughout:                              *)
(*   - send fails (and the value is dropped) iff the receiver is gone;     *)
(*   - try_recv returns a buffered value if there is one, also after every *)
(*     sender is gone; Disconnected only when the buffer is empty and      *)
(*     every sender is gone; Empty otherwise.                              *)
(***************************************************************************)
EXTENDS Integers, Sequences, FiniteSets, TLC

\* ------------------------------------------------------------------ bounds
MaxWrites == 2    \* payloads accepted by SerialHandle::write, per connection
MaxStream == 2    \* bytes the device delivers, per connection
MaxChunk == 2     \* longest chunk one read returns (the buffer holds 4096)
MaxKeys == 4      \* key events the coordinator handles
MaxPorts == 1     \* serial ports list_ports reports
MaxInput == 1     \* characters typed into the input buffer
MaxAppends == 5   \* lines appended to a given output log

\* const MAX_OUTPUT_LINES: usize = 5000
MAX_OUTPUT_LINES == 5000


\* ------------------------------------------------------------------ state
VARIABLES
    pc,         \* worker position: idle, open, wr, rd, cc, closing, exit, done
    handle,     \* SerialHandle: none, held, closed (close() consumed it), dropped
    event_rx,   \* TRUE while the consumer holds the Receiver<SerialEvent>
    event_ch,   \* buffered events of the event channel
    write_ch,   \* buffered payloads of the write channel
    close_ch,   \* number of buffered close signals
    sent,       \* history: every event the worker passed to event_tx.send
    received,   \* history: every event the consumer took from event_rx
    accepted,   \* history: payloads for which write() returned Ok
    writes,     \* history: port.write_all calls, <<payload, succeeded>>
    devBytes,   \* history: all bytes port.read returned, in order
    lastRead,   \* outcome of the latest port.read: none, data, zero, timeout, error
    why,        \* why the run loop was left: none, disconnected, readerr, close
    closeRes,   \* what close() returned, and whether its signal found close_rx alive
    writeRes,   \* result of the latest write(): none, Ok, Err
    lastOp,     \* the worker's latest device call: none, w (write_all), r (read)
    afterClose, \* <<write_all calls, read calls>> made since close() sent its signal
    \* AppState of src/app.rs and the position of its event loop
    app_pc,     \* idle (between events), inside toggle_port, or ended
    app_res,    \* running, or how run_inner returned: Ok or the error
    is_open,
    serial_handle,      \* 0 for None, else the connection of the handle
    serial_event_rx,    \* 0 for None, else the connection of the receiver
    output_lines,
    input_buffer,       \* the bytes typed
    ports,              \* number of ports listed
    selected_port,      \* -1 for None, else the index
    new_conn,   \* toggle_port's local (handle, rx), not yet stored
    appended,   \* history: every line passed to add_output_line
    keys        \* history: number of key events handled

\* The connections a process can open; they share no state in serial.rs.
\* The handle and receiver of SerialConns go to an arbitrary caller, the others
\* are opened by the coordinator of src/app.rs.
Conns == {1, 2}
SerialConns == {1}

appVars == <<app_pc, app_res, is_open, serial_handle, serial_event_rx,
             output_lines, input_buffer, ports, selected_port, new_conn,
             appended, keys>>

vars == <<pc, handle, event_rx, event_ch, write_ch, close_ch, sent, received,
          accepted, writes, devBytes, lastRead, why, closeRes, writeRes,
          lastOp, afterClose, app_pc, app_res, is_open, serial_handle,
          serial_event_rx, output_lines, input_buffer, ports, selected_port,
          new_conn, appended, keys>>

\* ------------------------------------------------------------------ events
\* enum SerialEvent { Opened, Data(Vec<u8>), Error(String), Closed }
Opened == [type |-> "Opened", bytes |-> <<>>, msg |-> ""]
Data(b) == [type |-> "Data", bytes |-> b, msg |-> ""]
Error(m) == [type |-> "Error", bytes |-> <<>>, msg |-> m]
Closed == [type |-> "Closed", bytes |-> <<>>, msg |-> ""]

\* The formatted messages, without the io::Error text they end with.
OpenErrMsg == "failed to open"
WriteErrMsg == "write error"
ReadErrMsg == "read error"

\* The device is a byte source: position i of its stream holds byte i (u8).
StreamByte(i) == i % 256

\* The bytes a read of n bytes obtains when k bytes were read before.
NextChunk(k, n) == [i \in 1 .. n |-> StreamByte(k + i)]

\* The code never looks into a payload, so the k-th payload submitted on a
\* connection is given the identity k: loss, duplication and reordering show.
NextPayload(c) == Len(accepted[c]) + 1

\* Sender::send on the event channel: buffered iff the receiver is alive.
ChanSend(ch, alive, ev) == IF alive THEN Append(ch, ev) ELSE ch

\* The worker's `let _ = event_tx.send(ev)` for connection c.
Emit(c, ev) ==
    /\ sent' = [sent EXCEPT ![c] = Append(@, ev)]
    /\ event_ch' = [event_ch EXCEPT ![c] = ChanSend(@, event_rx[c], ev)]

\* The worker's receivers (write_rx, close_rx) live until the thread ends.
WorkerAlive(c) == pc[c] \notin {"idle", "done"}

\* close() was called while close_rx was alive: its signal is, or was, queued.
Signalled(c) == closeRes[c] = <<"Ok", "delivered">>

\* Counting device calls, up to "more than one".
Bump(n) == IF n < 2 THEN n + 1 ELSE n

\* The write sender (SerialHandle.tx) lives as long as the handle does.
WriteTxAlive(c) == handle[c] = "held"

\* No connection has been opened.
ConnInit ==
    /\ pc = [c \in Conns |-> "idle"]
    /\ handle = [c \in Conns |-> "none"]
    /\ event_rx = [c \in Conns |-> FALSE]
    /\ event_ch = [c \in Conns |-> <<>>]
    /\ write_ch = [c \in Conns |-> <<>>]
    /\ close_ch = [c \in Conns |-> 0]
    /\ sent = [c \in Conns |-> <<>>]
    /\ received = [c \in Conns |-> <<>>]
    /\ accepted = [c \in Conns |-> <<>>]
    /\ writes = [c \in Conns |-> <<>>]
    /\ devBytes = [c \in Conns |-> <<>>]
    /\ lastRead = [c \in Conns |-> "none"]
    /\ why = [c \in Conns |-> "none"]
    /\ closeRes = [c \in Conns |-> <<"none", "none">>]
    /\ writeRes = [c \in Conns |-> "none"]
    /\ lastOp = [c \in Conns |-> "none"]
    /\ afterClose = [c \in Conns |-> <<0, 0>>]

\* AppState::new, with the ports list_ports found.
AppNew(n) ==
    /\ app_pc = "idle"
    /\ app_res = "running"
    /\ is_open = FALSE
    /\ serial_handle = 0
    /\ serial_event_rx = 0
    /\ output_lines = <<>>
    /\ input_buffer = <<>>
    /\ ports = n
    /\ selected_port = -1
    /\ new_conn = 0
    /\ appended = <<>>
    /\ keys = 0

Init == ConnInit /\ AppNew(0)

\* ------------------------------------------------------------ caller side
\* open_port: channels created, thread spawned, Ok((handle, event_rx)).
open_port(c) ==
    /\ pc[c] = "idle"
    /\ handle[c] = "none"
    /\ pc' = [pc EXCEPT ![c] = "open"]
    /\ handle' = [handle EXCEPT ![c] = "held"]
    /\ event_rx' = [event_rx EXCEPT ![c] = TRUE]
    /\ UNCHANGED <<event_ch, write_ch, close_ch, sent, received, accepted,
                   writes, devBytes, lastRead, why, closeRes, writeRes,
                   lastOp, afterClose>>

write_ErrOnceLoopLeft(c, data) ==
    /\ handle[c] = "held"
    /\ Len(accepted[c]) < MaxWrites
    /\ IF pc[c] \in {"open", "wr", "rd", "cc"}
         THEN /\ write_ch' = [write_ch EXCEPT ![c] = Append(@, data)]
              /\ accepted' = [accepted EXCEPT ![c] = Append(@, data)]
              /\ writeRes' = [writeRes EXCEPT ![c] = "Ok"]
         ELSE /\ writeRes' = [writeRes EXCEPT ![c] = "Err"]
              /\ UNCHANGED <<write_ch, accepted>>
    /\ UNCHANGED <<pc, handle, event_rx, event_ch, close_ch, sent, received,
                   writes, devBytes, lastRead, why, closeRes,
                   lastOp, afterClose>>

\* SerialHandle::write: tx.send(data), Err iff write_rx is gone.
write(c, data) ==
    /\ handle[c] = "held"
    /\ Len(accepted[c]) < MaxWrites
    /\ IF WorkerAlive(c)
         THEN /\ write_ch' = [write_ch EXCEPT ![c] = Append(@, data)]
              /\ accepted' = [accepted EXCEPT ![c] = Append(@, data)]
              /\ writeRes' = [writeRes EXCEPT ![c] = "Ok"]
         ELSE /\ writeRes' = [writeRes EXCEPT ![c] = "Err"]
              /\ UNCHANGED <<write_ch, accepted>>
    /\ UNCHANGED <<pc, handle, event_rx, event_ch, close_ch, sent, received,
                   writes, devBytes, lastRead, why, closeRes,
                   lastOp, afterClose>>

close_Propagating(c) ==
    /\ handle[c] = "held"
    /\ handle' = [handle EXCEPT ![c] = "closed"]
    /\ close_ch' = [close_ch EXCEPT ![c] = IF WorkerAlive(c) THEN @ + 1 ELSE @]
    /\ closeRes' = [closeRes EXCEPT ![c] =
                        IF WorkerAlive(c) THEN <<"Ok", "delivered">> ELSE <<"Err", "lost">>]
    /\ UNCHANGED <<pc, event_rx, event_ch, write_ch, sent, received, accepted,
                   writes, devBytes, lastRead, why, writeRes,
                   lastOp, afterClose>>

\* SerialHandle::close: `let _ = close_tx.send(())`, Ok(()), handle consumed
\* (both senders dropped).
close(c) ==
    /\ handle[c] = "held"
    /\ handle' = [handle EXCEPT ![c] = "closed"]
    /\ close_ch' = [close_ch EXCEPT ![c] = IF WorkerAlive(c) THEN @ + 1 ELSE @]
    /\ closeRes' = [closeRes EXCEPT ![c] =
                        <<"Ok", IF WorkerAlive(c) THEN "delivered" ELSE "lost">>]
    /\ UNCHANGED <<pc, event_rx, event_ch, write_ch, sent, received, accepted,
                   writes, devBytes, lastRead, why, writeRes,
                   lastOp, afterClose>>

\* The handle goes out of scope without close(): both senders dropped.
drop_handle(c) ==
    /\ handle[c] = "held"
    /\ handle' = [handle EXCEPT ![c] = "dropped"]
    /\ UNCHANGED <<pc, event_rx, event_ch, write_ch, close_ch, sent, received,
                   accepted, writes, devBytes, lastRead, why, closeRes, writeRes,
                   lastOp, afterClose>>

\* The consumer's event_rx.try_recv() returning Ok(ev).
recv_event(c) ==
    /\ event_rx[c]
    /\ event_ch[c] # <<>>
    /\ received' = [received EXCEPT ![c] = Append(@, Head(event_ch[c]))]
    /\ event_ch' = [event_ch EXCEPT ![c] = Tail(@)]
    /\ UNCHANGED <<pc, handle, event_rx, write_ch, close_ch, sent, accepted,
                   writes, devBytes, lastRead, why, closeRes, writeRes,
                   lastOp, afterClose>>

\* The consumer drops the receiver: buffered events are discarded.
drop_event_rx(c) ==
    /\ event_rx[c]
    /\ event_rx' = [event_rx EXCEPT ![c] = FALSE]
    /\ event_ch' = [event_ch EXCEPT ![c] = <<>>]
    /\ UNCHANGED <<pc, handle, write_ch, close_ch, sent, received, accepted,
                   writes, devBytes, lastRead, why, closeRes, writeRes,
                   lastOp, afterClose>>

\* ------------------------------------------------------------ worker side
open_ok_NoOpened(c) ==
    /\ pc[c] = "open"
    /\ pc' = [pc EXCEPT ![c] = "wr"]
    /\ UNCHANGED <<handle, event_rx, event_ch, write_ch, close_ch, sent, received,
                   accepted, writes, devBytes, lastRead, why, closeRes, writeRes,
                   lastOp, afterClose>>

\* builder.open() succeeds: send Opened, enter the loop.
open_ok(c) ==
    /\ pc[c] = "open"
    /\ Emit(c, Opened)
    /\ pc' = [pc EXCEPT ![c] = "wr"]
    /\ UNCHANGED <<handle, event_rx, write_ch, close_ch, received, accepted,
                   writes, devBytes, lastRead, why, closeRes, writeRes,
                   lastOp, afterClose>>

open_err_ThenClosed(c) ==
    /\ pc[c] = "open"
    /\ Emit(c, Error(OpenErrMsg))
    /\ pc' = [pc EXCEPT ![c] = "closing"]
    /\ UNCHANGED <<handle, event_rx, write_ch, close_ch, received, accepted,
                   writes, devBytes, lastRead, why, closeRes, writeRes,
                   lastOp, afterClose>>

\* builder.open() fails: send one Error, the closure ends.
open_err(c) ==
    /\ pc[c] = "open"
    /\ Emit(c, Error(OpenErrMsg))
    /\ pc' = [pc EXCEPT ![c] = "exit"]
    /\ UNCHANGED <<handle, event_rx, write_ch, close_ch, received, accepted,
                   writes, devBytes, lastRead, why, closeRes, writeRes,
                   lastOp, afterClose>>

WriteFailed_Silent(c) ==
    /\ UNCHANGED <<sent, event_ch>>
    /\ pc' = [pc EXCEPT ![c] = "rd"]
    /\ why' = why

WriteFailed_Break(c) ==
    /\ Emit(c, Error(WriteErrMsg))
    /\ pc' = [pc EXCEPT ![c] = "closing"]
    /\ why' = why

\* port.write_all returned Err: send one Error and go on to the read.
WriteFailed(c) ==
    /\ Emit(c, Error(WriteErrMsg))
    /\ pc' = [pc EXCEPT ![c] = "rd"]
    /\ why' = why

WriteDisconnected_Return(c) ==
    /\ pc' = [pc EXCEPT ![c] = "exit"]
    /\ why' = [why EXCEPT ![c] = "disconnected"]

WriteDisconnected_Ignored(c) ==
    /\ pc' = [pc EXCEPT ![c] = "rd"]
    /\ why' = why

\* try_recv returned Disconnected: break out of the loop.
WriteDisconnected(c) ==
    /\ pc' = [pc EXCEPT ![c] = "closing"]
    /\ why' = [why EXCEPT ![c] = "disconnected"]

WriteDone_Continue(c) ==
    /\ pc' = pc
    /\ UNCHANGED <<sent, event_ch, why>>

\* port.write_all returned Ok: go on to the read.
WriteDone(c) ==
    /\ pc' = [pc EXCEPT ![c] = "rd"]
    /\ UNCHANGED <<sent, event_ch, why>>

\* Loop step 1: write_rx.try_recv() and, on a payload, port.write_all.
loop_write(c) ==
    /\ pc[c] = "wr"
    /\ IF write_ch[c] # <<>>
         THEN \E ok \in BOOLEAN :
                /\ write_ch' = [write_ch EXCEPT ![c] = Tail(@)]
                /\ writes' = [writes EXCEPT ![c] = Append(@, <<Head(write_ch[c]), ok>>)]
                /\ IF ok THEN WriteDone(c) ELSE WriteFailed(c)
         ELSE /\ IF WriteTxAlive(c)
                   THEN /\ pc' = [pc EXCEPT ![c] = "rd"]
                        /\ why' = why
                   ELSE WriteDisconnected(c)
              /\ UNCHANGED <<write_ch, writes, sent, event_ch>>
    /\ lastOp' = [lastOp EXCEPT ![c] = IF write_ch[c] # <<>> THEN "w" ELSE @]
    /\ afterClose' = [afterClose EXCEPT ![c] =
            IF write_ch[c] # <<>> /\ Signalled(c) THEN <<Bump(@[1]), @[2]>> ELSE @]
    /\ UNCHANGED <<handle, event_rx, close_ch, received, accepted, devBytes,
                   lastRead, closeRes, writeRes>>

ReadData_MoreThanOne(c, n) ==
    /\ Len(devBytes[c]) + n <= MaxStream
    /\ devBytes' = [devBytes EXCEPT ![c] = @ \o NextChunk(Len(@), n)]
    /\ IF n > 1 THEN Emit(c, Data(NextChunk(Len(devBytes[c]), n)))
                ELSE UNCHANGED <<sent, event_ch>>
    /\ lastRead' = [lastRead EXCEPT ![c] = "data"]
    /\ pc' = [pc EXCEPT ![c] = "cc"]
    /\ why' = why

\* port.read returned Ok(n), n > 0: send Data(buf[..n]).
ReadData(c, n) ==
    /\ Len(devBytes[c]) + n <= MaxStream
    /\ devBytes' = [devBytes EXCEPT ![c] = @ \o NextChunk(Len(@), n)]
    /\ Emit(c, Data(NextChunk(Len(devBytes[c]), n)))
    /\ lastRead' = [lastRead EXCEPT ![c] = "data"]
    /\ pc' = [pc EXCEPT ![c] = "cc"]
    /\ why' = why

ReadZero_EmptyData(c) ==
    /\ lastRead' = [lastRead EXCEPT ![c] = "zero"]
    /\ Emit(c, Data(<<>>))
    /\ pc' = [pc EXCEPT ![c] = "cc"]
    /\ UNCHANGED <<devBytes, why>>

\* port.read returned Ok(0): nothing is sent.
ReadZero(c) ==
    /\ lastRead' = [lastRead EXCEPT ![c] = "zero"]
    /\ pc' = [pc EXCEPT ![c] = "cc"]
    /\ UNCHANGED <<devBytes, sent, event_ch, why>>

ReadTimeout_AsError(c) ==
    /\ lastRead' = [lastRead EXCEPT ![c] = "timeout"]
    /\ Emit(c, Error(ReadErrMsg))
    /\ pc' = [pc EXCEPT ![c] = "closing"]
    /\ why' = [why EXCEPT ![c] = "readerr"]
    /\ UNCHANGED devBytes

\* port.read returned Err of kind TimedOut: nothing is sent.
ReadTimeout(c) ==
    /\ lastRead' = [lastRead EXCEPT ![c] = "timeout"]
    /\ pc' = [pc EXCEPT ![c] = "cc"]
    /\ UNCHANGED <<devBytes, sent, event_ch, why>>

ReadError_Continue(c) ==
    /\ lastRead' = [lastRead EXCEPT ![c] = "error"]
    /\ Emit(c, Error(ReadErrMsg))
    /\ pc' = [pc EXCEPT ![c] = "cc"]
    /\ UNCHANGED <<devBytes, why>>

\* port.read returned any other Err: send one Error and break.
ReadError(c) ==
    /\ lastRead' = [lastRead EXCEPT ![c] = "error"]
    /\ Emit(c, Error(ReadErrMsg))
    /\ pc' = [pc EXCEPT ![c] = "closing"]
    /\ why' = [why EXCEPT ![c] = "readerr"]
    /\ UNCHANGED devBytes

\* Loop step 2: port.read(&mut buf) with the 50 ms timeout.
loop_read(c) ==
    /\ pc[c] = "rd"
    /\ \/ \E n \in 1 .. MaxChunk : ReadData(c, n)
       \/ ReadZero(c)
       \/ ReadTimeout(c)
       \/ ReadError(c)
    /\ lastOp' = [lastOp EXCEPT ![c] = "r"]
    /\ afterClose' = [afterClose EXCEPT ![c] =
            IF Signalled(c) THEN <<@[1], Bump(@[2])>> ELSE @]
    /\ UNCHANGED <<handle, event_rx, write_ch, close_ch, received, accepted,
                   writes, closeRes, writeRes>>

loop_close_check_Ignored(c) ==
    /\ pc[c] = "cc"
    /\ close_ch' = [close_ch EXCEPT ![c] = IF @ > 0 THEN @ - 1 ELSE @]
    /\ pc' = [pc EXCEPT ![c] = "wr"]
    /\ UNCHANGED <<handle, event_rx, event_ch, write_ch, sent, received, accepted,
                   writes, devBytes, lastRead, why, closeRes, writeRes,
                   lastOp, afterClose>>

\* Loop step 3: close_rx.try_recv().is_ok() ends the loop.
loop_close_check(c) ==
    /\ pc[c] = "cc"
    /\ IF close_ch[c] > 0
         THEN /\ close_ch' = [close_ch EXCEPT ![c] = @ - 1]
              /\ pc' = [pc EXCEPT ![c] = "closing"]
              /\ why' = [why EXCEPT ![c] = "close"]
         ELSE /\ pc' = [pc EXCEPT ![c] = "wr"]
              /\ UNCHANGED <<close_ch, why>>
    /\ UNCHANGED <<handle, event_rx, event_ch, write_ch, sent, received, accepted,
                   writes, devBytes, lastRead, closeRes, writeRes,
                   lastOp, afterClose>>

\* After the loop: send Closed.
send_closed(c) ==
    /\ pc[c] = "closing"
    /\ Emit(c, Closed)
    /\ pc' = [pc EXCEPT ![c] = "exit"]
    /\ UNCHANGED <<handle, event_rx, write_ch, close_ch, received, accepted,
                   writes, devBytes, lastRead, why, closeRes, writeRes,
                   lastOp, afterClose>>

\* The closure returns: port, write_rx, close_rx and event_tx are dropped.
thread_exit(c) ==
    /\ pc[c] = "exit"
    /\ pc' = [pc EXCEPT ![c] = "done"]
    /\ write_ch' = [write_ch EXCEPT ![c] = <<>>]
    /\ close_ch' = [close_ch EXCEPT ![c] = 0]
    /\ UNCHANGED <<handle, event_rx, event_ch, sent, received, accepted, writes,
                   devBytes, lastRead, why, closeRes, writeRes,
                   lastOp, afterClose>>

Worker(c) ==
    \/ open_ok(c)
    \/ open_err(c)
    \/ loop_write(c)
    \/ loop_read(c)
    \/ loop_close_check(c)
    \/ send_closed(c)
    \/ thread_exit(c)

Caller(c) ==
    \/ open_port(c)
    \/ write(c, NextPayload(c))
    \/ close(c)
    \/ drop_handle(c)
    \/ recv_event(c)
    \/ drop_event_rx(c)

Next == \E c \in SerialConns : (Worker(c) \/ Caller(c)) /\ UNCHANGED appVars

Spec == Init /\ [][Next]_vars

\* The worker thread is scheduled fairly and every device call returns.
FairSpec == Spec /\ \A c \in SerialConns : WF_vars(Worker(c) /\ UNCHANGED appVars)

\* ------------------------------------------------------------ output log
\* A line of the output log: its text, and the bytes it shows (data, echo).
Note(text) == [text |-> text, bytes |-> <<>>]
DataLine(bytes) == [text |-> "", bytes |-> bytes]
EchoLine(bytes) == [text |-> ">> ", bytes |-> bytes]
ErrorLine(msg) == [text |-> "[error] " \o msg, bytes |-> <<>>]

RECURSIVE PopWhileOver_Back(_)
PopWhileOver_Back(q) ==
    IF Len(q) > MAX_OUTPUT_LINES
      THEN PopWhileOver_Back(SubSeq(q, 1, Len(q) - 1))
      ELSE q

\* while output_lines.len() > MAX_OUTPUT_LINES { output_lines.pop_front(); }
RECURSIVE PopWhileOver(_)
PopWhileOver(q) ==
    IF Len(q) > MAX_OUTPUT_LINES THEN PopWhileOver(Tail(q)) ELSE q

\* AppState::add_output_line, on the log q.
add_output_line(q, line) == PopWhileOver(Append(q, line))

\* add_output_line for each line of ls, in order.
RECURSIVE add_output_lines(_, _)
add_output_lines(q, ls) ==
    IF ls = <<>> THEN q
    ELSE add_output_lines(add_output_line(q, Head(ls)), Tail(ls))

\* The coordinator appends the lines ls to its log.
AddLines(ls) ==
    /\ output_lines' = add_output_lines(output_lines, ls)
    /\ appended' = appended \o ls

\* A log that already holds n numbered lines.
Prefill(n) == [i \in 1 .. n |-> Note(ToString(i))]
PrefillSizes == {0, MAX_OUTPUT_LINES - 1, MAX_OUTPUT_LINES}
SampleLines == {Note("[opened]"), Note("[not open]"), DataLine(<<1>>)}

LogInit ==
    /\ ConnInit
    /\ app_pc = "idle"
    /\ app_res = "running"
    /\ is_open = FALSE
    /\ serial_handle = 0
    /\ serial_event_rx = 0
    /\ output_lines \in {Prefill(n) : n \in PrefillSizes}
    /\ input_buffer = <<>>
    /\ ports = 0
    /\ selected_port = -1
    /\ new_conn = 0
    /\ appended = output_lines
    /\ keys = 0

\* One add_output_line call.
log_append ==
    /\ keys < MaxAppends
    /\ \E line \in SampleLines : AddLines(<<line>>)
    /\ keys' = keys + 1
    /\ UNCHANGED <<pc, handle, event_rx, event_ch, write_ch, close_ch, sent,
                   received, accepted, writes, devBytes, lastRead, why, closeRes,
                   writeRes, lastOp, afterClose, app_pc, app_res, is_open,
                   serial_handle, serial_event_rx, input_buffer, ports,
                   selected_port, new_conn>>

LogNext == log_append

LogSpec == LogInit /\ [][LogNext]_vars

\* ------------------------------------------------------------ coordinator
\* The connections' variables, which a pure display action leaves alone.
connVars == <<pc, handle, event_rx, event_ch, write_ch, close_ch, sent,
              received, accepted, writes, devBytes, lastRead, why, closeRes,
              writeRes, lastOp, afterClose>>

\* String::from_utf8 succeeds, for the one-byte code points a modelled
\* device delivers.
IsUtf8(b) == \A i \in 1 .. Len(b) : b[i] < 128

\* s.split_inclusive(['\n', '\r']): pieces ending after each 10 or 13.
RECURSIVE SplitInclusive(_)
SplitInclusive(b) ==
    IF b = <<>> THEN <<>>
    ELSE LET ends == {i \in 1 .. Len(b) : b[i] \in {10, 13}}
         IN IF ends = {} THEN <<b>>
            ELSE LET e == CHOOSE i \in ends : \A j \in ends : i <= j
                 IN <<SubSeq(b, 1, e)>> \o SplitInclusive(SubSeq(b, e + 1, Len(b)))

\* The lines drain_serial_events appends for one event.
LinesOf(ev) ==
    CASE ev.type = "Opened" -> <<Note("[opened]")>>
      [] ev.type = "Data" ->
            IF IsUtf8(ev.bytes)
              THEN [i \in 1 .. Len(SplitInclusive(ev.bytes)) |->
                        DataLine(SplitInclusive(ev.bytes)[i])]
              ELSE <<Note("[binary data]")>>
      [] ev.type = "Error" -> <<ErrorLine(ev.msg)>>
      [] ev.type = "Closed" -> <<Note("[closed]")>>

FoldEvent_KeepHandle(st, ev) ==
    [is_open |-> CASE ev.type = "Opened" -> TRUE
                   [] ev.type = "Closed" -> FALSE
                   [] OTHER -> st.is_open,
     lines |-> st.lines \o LinesOf(ev),
     gone |-> st.gone]

\* One arm of the `for ev in drained` match: st is the display state so far,
\* gone tells that the handle and the receiver were set to None.
FoldEvent(st, ev) ==
    [is_open |-> CASE ev.type = "Opened" -> TRUE
                   [] ev.type = "Closed" -> FALSE
                   [] OTHER -> st.is_open,
     lines |-> st.lines \o LinesOf(ev),
     gone |-> st.gone \/ ev.type = "Closed"]

RECURSIVE FoldEvents(_, _)
FoldEvents(evs, st) ==
    IF evs = <<>> THEN st
    ELSE FoldEvents(Tail(evs), FoldEvent(st, Head(evs)))

\* The coordinator's loop is running and between two handlers.
AppIdle == app_res = "running" /\ app_pc = "idle"

\* A handler returns Err: `?` carries it out of run_inner and the process ends.
AppEnd(res) ==
    /\ app_res' = res
    /\ app_pc' = "ended"

\* The connection the next open_port call creates.
FreshConn == CHOOSE c \in Conns :
                /\ pc[c] = "idle" /\ handle[c] = "none"
                /\ \A d \in Conns : (pc[d] = "idle" /\ handle[d] = "none") => c <= d

\* drain_serial_events: try_recv until Empty/Disconnected, then fold.
drain_serial_events ==
    /\ AppIdle
    /\ LET rx == serial_event_rx
           evs == IF rx = 0 THEN <<>> ELSE event_ch[rx]
           st == FoldEvents(evs, [is_open |-> is_open, lines |-> <<>>, gone |-> FALSE])
       IN /\ received' = IF rx = 0 THEN received
                         ELSE [received EXCEPT ![rx] = @ \o evs]
          /\ event_ch' = IF rx = 0 THEN event_ch
                         ELSE [event_ch EXCEPT ![rx] = <<>>]
          /\ is_open' = st.is_open
          /\ AddLines(st.lines)
          /\ serial_handle' = IF st.gone THEN 0 ELSE serial_handle
          /\ serial_event_rx' = IF st.gone THEN 0 ELSE rx
          /\ handle' = IF st.gone /\ serial_handle # 0
                         THEN [handle EXCEPT ![serial_handle] = "dropped"]
                         ELSE handle
          /\ event_rx' = IF st.gone THEN [event_rx EXCEPT ![rx] = FALSE]
                         ELSE event_rx
    /\ UNCHANGED <<pc, write_ch, close_ch, sent, accepted, writes, devBytes,
                   lastRead, why, closeRes, writeRes, lastOp, afterClose,
                   app_pc, app_res, input_buffer, ports, selected_port,
                   new_conn, keys>>

\* 'q' or Ctrl-C: handle_key_event returns Ok(true), the loop breaks.
key_quit ==
    /\ AppIdle
    /\ keys < MaxKeys
    /\ keys' = keys + 1
    /\ AppEnd("quit")
    /\ UNCHANGED <<connVars, is_open, serial_handle, serial_event_rx,
                   output_lines, input_buffer, ports, selected_port, new_conn,
                   appended>>

\* 'r': app.ports = list_ports()?, selection reset.
key_refresh ==
    /\ AppIdle
    /\ keys < MaxKeys
    /\ keys' = keys + 1
    /\ \/ /\ AppEnd("list ports")
          /\ UNCHANGED <<ports, selected_port>>
       \/ /\ \E n \in 0 .. MaxPorts :
                /\ ports' = n
                /\ selected_port' = IF n = 0 THEN -1 ELSE 0
          /\ UNCHANGED <<app_pc, app_res>>
    /\ UNCHANGED <<connVars, is_open, serial_handle, serial_event_rx,
                   output_lines, input_buffer, new_conn, appended>>

\* move_selection(app, delta); None is -1.
move_selection(delta) ==
    selected_port' =
        IF ports = 0 THEN -1
        ELSE LET current == IF selected_port = -1 THEN 0 ELSE selected_port
                 next == current + delta
             IN IF next < 0 THEN 0
                ELSE IF next >= ports THEN ports - 1 ELSE next

\* Up / Down on the port list.
key_move ==
    /\ AppIdle
    /\ keys < MaxKeys
    /\ keys' = keys + 1
    /\ \E delta \in {-1, 1} : move_selection(delta)
    /\ UNCHANGED <<connVars, app_pc, app_res, is_open, serial_handle,
                   serial_event_rx, output_lines, input_buffer, ports,
                   new_conn, appended>>

\* A character typed into the input pane, or Backspace.
key_edit ==
    /\ AppIdle
    /\ keys < MaxKeys
    /\ keys' = keys + 1
    /\ \/ /\ Len(input_buffer) < MaxInput
          /\ input_buffer' = Append(input_buffer, 97)
       \/ /\ input_buffer # <<>>
          /\ input_buffer' = SubSeq(input_buffer, 1, Len(input_buffer) - 1)
    /\ UNCHANGED <<connVars, app_pc, app_res, is_open, serial_handle,
                   serial_event_rx, output_lines, ports, selected_port,
                   new_conn, appended>>

\* send_input on Enter in the input pane.
send_input ==
    /\ AppIdle
    /\ keys < MaxKeys
    /\ keys' = keys + 1
    /\ IF input_buffer = <<>>
         THEN UNCHANGED <<connVars, app_pc, app_res, output_lines, appended,
                          input_buffer>>
         ELSE IF serial_handle # 0
           THEN /\ write(serial_handle, input_buffer \o <<10>>)
                /\ IF writeRes'[serial_handle] = "Ok"
                     THEN /\ AddLines(<<EchoLine(input_buffer)>>)
                          /\ input_buffer' = <<>>
                          /\ UNCHANGED <<app_pc, app_res>>
                     ELSE /\ AppEnd("writer disconnected")
                          /\ UNCHANGED <<output_lines, appended, input_buffer>>
           ELSE /\ AddLines(<<Note("[not open]")>>)
                /\ UNCHANGED <<connVars, app_pc, app_res, input_buffer>>
    /\ UNCHANGED <<is_open, serial_handle, serial_event_rx, ports,
                   selected_port, new_conn>>

\* toggle_port with is_open: serial_handle.take(), handle.close()?.
toggle_port_close ==
    /\ AppIdle
    /\ keys < MaxKeys
    /\ keys' = keys + 1
    /\ is_open
    /\ IF serial_handle # 0
         THEN close(serial_handle)
         ELSE UNCHANGED connVars
    /\ serial_handle' = 0
    /\ app_pc' = "toggle_closing"
    /\ UNCHANGED <<app_res, is_open, serial_event_rx, output_lines,
                   input_buffer, ports, selected_port, new_conn, appended>>

toggle_port_closing_KeepRx ==
    /\ app_res = "running"
    /\ app_pc = "toggle_closing"
    /\ is_open' = FALSE
    /\ AddLines(<<Note("[closing...]")>>)
    /\ app_pc' = "idle"
    /\ UNCHANGED <<connVars, app_res, serial_handle, serial_event_rx,
                   input_buffer, ports, selected_port, new_conn, keys>>

\* ... is_open = false, serial_event_rx = None, "[closing...]".
toggle_port_closing ==
    /\ app_res = "running"
    /\ app_pc = "toggle_closing"
    /\ is_open' = FALSE
    /\ IF serial_event_rx # 0
         THEN drop_event_rx(serial_event_rx)
         ELSE UNCHANGED connVars
    /\ serial_event_rx' = 0
    /\ AddLines(<<Note("[closing...]")>>)
    /\ app_pc' = "idle"
    /\ UNCHANGED <<app_res, serial_handle, input_buffer, ports, selected_port,
                   new_conn, keys>>

\* toggle_port with is_open false: the selected port is looked up and opened.
toggle_port_open ==
    /\ AppIdle
    /\ keys < MaxKeys
    /\ keys' = keys + 1
    /\ ~is_open
    /\ IF selected_port = -1
         THEN /\ AppEnd("no port selected")
              /\ UNCHANGED <<connVars, new_conn>>
         ELSE IF selected_port >= ports
           THEN /\ AppEnd("invalid port index")
                /\ UNCHANGED <<connVars, new_conn>>
           ELSE /\ \E c \in Conns : pc[c] = "idle" /\ handle[c] = "none"
                /\ open_port(FreshConn)
                /\ new_conn' = FreshConn
                /\ app_pc' = "set_handle"
                /\ UNCHANGED app_res
    /\ UNCHANGED <<is_open, serial_handle, serial_event_rx, output_lines,
                   input_buffer, ports, selected_port, appended>>

\* app.serial_handle = Some(handle): a handle still stored is dropped.
toggle_port_set_handle ==
    /\ app_res = "running"
    /\ app_pc = "set_handle"
    /\ IF serial_handle # 0
         THEN drop_handle(serial_handle)
         ELSE UNCHANGED connVars
    /\ serial_handle' = new_conn
    /\ app_pc' = "set_rx"
    /\ UNCHANGED <<app_res, is_open, serial_event_rx, output_lines,
                   input_buffer, ports, selected_port, new_conn, appended, keys>>

\* app.serial_event_rx = Some(rx): a receiver still stored is dropped.
toggle_port_set_rx ==
    /\ app_res = "running"
    /\ app_pc = "set_rx"
    /\ IF serial_event_rx # 0
         THEN drop_event_rx(serial_event_rx)
         ELSE UNCHANGED connVars
    /\ serial_event_rx' = new_conn
    /\ new_conn' = 0
    /\ app_pc' = "idle"
    /\ UNCHANGED <<app_res, is_open, serial_handle, output_lines,
                   input_buffer, ports, selected_port, appended, keys>>

toggle_port ==
    \/ toggle_port_close
    \/ toggle_port_closing
    \/ toggle_port_open
    \/ toggle_port_set_handle
    \/ toggle_port_set_rx

\* handle_key_event: Tab and BackTab bring the focus to any pane, so Enter
\* reaches toggle_port as well as send_input.
handle_key_event ==
    \/ key_quit
    \/ key_refresh
    \/ key_move
    \/ key_edit
    \/ send_input
    \/ toggle_port

\* A worker thread runs as long as the process does.
AppWorker(c) ==
    /\ app_res = "running"
    /\ Worker(c)
    /\ UNCHANGED appVars

AppInit == ConnInit /\ \E n \in 0 .. MaxPorts : AppNew(n)

AppNext ==
    \/ \E c \in Conns : AppWorker(c)
    \/ handle_key_event
    \/ drain_serial_events

AppSpec == AppInit /\ [][AppNext]_vars

\* ------------------------------------------------------- derived notions
Idx(q) == 1 .. Len(q)
InSeq(ev, q) == \E i \in Idx(q) : q[i] = ev
NumOf(ev, q) == Cardinality({i \in Idx(q) : q[i] = ev})
IsPrefix(a, b) == Len(a) <= Len(b) /\ \A i \in Idx(a) : a[i] = b[i]

\* The payloads of the Data events of q, concatenated in order.
RECURSIVE DataBytes(_)
DataBytes(q) ==
    IF q = <<>> THEN <<>>
    ELSE (IF Head(q).type = "Data" THEN Head(q).bytes ELSE <<>>) \o DataBytes(Tail(q))

\* The worker acquired the device / failed to acquire it.
Acquired(c) == sent[c] # <<>> /\ sent[c][1] = Opened
OpenFailed(c) == sent[c] # <<>> /\ sent[c][1] = Error(OpenErrMsg)

\* What a consumer that drains the event channel completely has got.
Drained(c) == received[c] \o event_ch[c]

\* The payloads the worker took from the write queue, and the failed ones.
Attempted(c) == [i \in Idx(writes[c]) |-> writes[c][i][1]]
FailedWrites(c) == {i \in Idx(writes[c]) : ~writes[c][i][2]}

\* An event of the run loop: Data, or a write or read Error.
IsLoopEvent(ev) ==
    \/ ev.type = "Data"
    \/ ev.type = "Error" /\ ev.msg \in {WriteErrMsg, ReadErrMsg}

\* ------------------------------------------------------------------ claims

\* C1: in the events a worker sends, Opened comes before every Data and every
\* read/write Error, there is at most one Opened and at most one Closed, nothing
\* follows Closed, and the consumer receives the events in the order sent.
C1_EventOrder ==
    \A c \in Conns :
        /\ \A i \in Idx(sent[c]) :
              IsLoopEvent(sent[c][i]) => \E j \in 1 .. (i - 1) : sent[c][j] = Opened
        /\ NumOf(Opened, sent[c]) <= 1
        /\ NumOf(Closed, sent[c]) <= 1
        /\ \A i \in Idx(sent[c]) : sent[c][i] = Closed => i = Len(sent[c])
        /\ IsPrefix(received[c], sent[c])
        /\ event_rx[c] => Drained(c) = sent[c]

C1_Witness ==
    \E c \in Conns :
        /\ Len(received[c]) >= 4
        /\ received[c] = sent[c]
        /\ received[c][Len(received[c])] = Closed
        /\ InSeq(Error(WriteErrMsg), received[c])
        /\ \E i \in Idx(received[c]) : received[c][i].type = "Data"

\* C2 as stated: every terminated worker, whatever path it took, leaves a
\* drained event channel with exactly one Closed, as its last event.
C2_ClosedOnEveryPath ==
    \A c \in Conns :
        (pc[c] = "done" /\ event_rx[c]) =>
            /\ NumOf(Closed, Drained(c)) = 1
            /\ Drained(c)[Len(Drained(c))] = Closed

\* C2 amended: a terminated worker that acquired the device sent exactly one
\* Closed, as its last event, and a consumer that still holds the receiver
\* drains exactly that; a worker whose acquisition failed sent no Closed.
C2_ClosedAfterAcquire ==
    \A c \in Conns :
        pc[c] = "done" =>
            /\ Acquired(c) =>
                  /\ NumOf(Closed, sent[c]) = 1
                  /\ sent[c][Len(sent[c])] = Closed
                  /\ event_rx[c] => /\ NumOf(Closed, Drained(c)) = 1
                                    /\ Drained(c)[Len(Drained(c))] = Closed
            /\ OpenFailed(c) => ~InSeq(Closed, sent[c])
            /\ Acquired(c) \/ OpenFailed(c)

C2_Witness ==
    \E c \in Conns :
        /\ pc[c] = "done"
        /\ why[c] = "disconnected"
        /\ event_rx[c]
        /\ event_ch[c] = <<>>
        /\ received[c][Len(received[c])] = Closed

\* C3: when acquisition fails, open_port has returned its handle and receiver
\* all the same, and the worker sends exactly one Error and terminates: no
\* Opened, no Data, no Closed, and no device read or write.
C3_OpenFailure ==
    \A c \in Conns :
        OpenFailed(c) =>
            /\ sent[c] = <<Error(OpenErrMsg)>>
            /\ pc[c] \in {"exit", "done"}
            /\ handle[c] # "none"
            /\ writes[c] = <<>>
            /\ devBytes[c] = <<>>
            /\ lastRead[c] = "none"
            /\ why[c] = "none"

C3_Witness ==
    \E c \in Conns :
        /\ pc[c] = "done"
        /\ received[c] = <<Error(OpenErrMsg)>>
        /\ event_ch[c] = <<>>
        /\ accepted[c] # <<>>

\* C4 as stated: once the worker of a connection that acquired the device has
\* finished, every accepted payload was attempted on the device, in enqueue
\* order, with one write Error per failed attempt.
C4_NoAcceptedPayloadLost ==
    \A c \in Conns :
        (pc[c] = "done" /\ Acquired(c)) =>
            /\ Attempted(c) = accepted[c]
            /\ NumOf(Error(WriteErrMsg), sent[c]) = Cardinality(FailedWrites(c))

\* C4 amended: the payloads the worker takes are a prefix of the accepted ones,
\* in enqueue order, the rest waiting in the queue while the worker lives; each
\* failed attempt has exactly one write Error; when the loop ends because the
\* write channel is disconnected every accepted payload was attempted.
C4_TakenPayloads ==
    \A c \in Conns :
        /\ IsPrefix(Attempted(c), accepted[c])
        /\ WorkerAlive(c) => accepted[c] = Attempted(c) \o write_ch[c]
        /\ NumOf(Error(WriteErrMsg), sent[c]) = Cardinality(FailedWrites(c))
        /\ why[c] = "disconnected" => Attempted(c) = accepted[c]

C4_Witness ==
    \E c \in Conns :
        /\ pc[c] = "done"
        /\ why[c] = "disconnected"
        /\ Len(accepted[c]) = 2
        /\ accepted[c][1] # accepted[c][2]
        /\ writes[c] = <<<<accepted[c][1], FALSE>>, <<accepted[c][2], TRUE>>>>
        /\ NumOf(Error(WriteErrMsg), received[c]) = 1

\* C5: the Data payloads, concatenated in the order sent, are exactly the bytes
\* the worker's reads obtained; a consumer holding the receiver gets them all.
C5_DataIsWhatWasRead ==
    \A c \in Conns :
        /\ DataBytes(sent[c]) = devBytes[c]
        /\ devBytes[c] = NextChunk(0, Len(devBytes[c]))
        /\ event_rx[c] => DataBytes(Drained(c)) = devBytes[c]

C5_Witness ==
    \E c \in Conns :
        /\ Len(devBytes[c]) = 2
        /\ lastRead[c] = "zero"
        /\ Cardinality({i \in Idx(received[c]) : received[c][i].type = "Data"}) = 2
        /\ DataBytes(received[c]) = devBytes[c]

\* A step in which the worker of c made a failed port.write_all.
FailedWriteStep(c) ==
    /\ Len(writes'[c]) = Len(writes[c]) + 1
    /\ ~writes'[c][Len(writes'[c])][2]

\* A step in which the worker of c made a port.read call.
ReadStep(c) == pc[c] = "rd" /\ pc'[c] # "rd"

\* C6: a failed device write makes the worker send exactly one write Error and
\* go on to the read of the same iteration; the loop is left only on a
\* disconnected write channel, a fatal read error or a close signal, so a
\* write failure alone never leads to Closed.
C6_WriteFailureRecovered ==
    /\ [][\A c \in Conns :
            FailedWriteStep(c) =>
                /\ sent'[c] = Append(sent[c], Error(WriteErrMsg))
                /\ pc'[c] = "rd"
                /\ why'[c] = "none"]_vars
    /\ [](\A c \in Conns :
            /\ (Acquired(c) /\ pc[c] \in {"closing", "exit", "done"})
                  => why[c] \in {"disconnected", "readerr", "close"}
            /\ InSeq(Closed, sent[c]) => why[c] \in {"disconnected", "readerr", "close"}
            /\ (why[c] = "close" => closeRes[c][1] = "Ok")
            /\ (why[c] = "disconnected" => handle[c] \in {"closed", "dropped"})
            /\ (why[c] = "readerr" => lastRead[c] = "error"))

C6_Witness ==
    \E c \in Conns :
        /\ handle[c] = "held"
        /\ pc[c] = "rd"
        /\ lastRead[c] = "data"
        /\ Len(accepted[c]) = 2
        /\ writes[c] = <<<<accepted[c][1], FALSE>>, <<accepted[c][2], TRUE>>>>
        /\ received[c] = <<Opened, Error(WriteErrMsg), Data(devBytes[c])>>
        /\ event_ch[c] = <<>>

\* C7: a read error other than a timeout is fatal: its Error event is directly
\* followed by Closed, and after it the worker makes no device write, no device
\* read and takes no payload; a read timeout sends nothing and the loop goes on
\* to the close check.
C7_ReadErrorFatal ==
    /\ [](\A c \in Conns : \A i \in Idx(sent[c]) :
            sent[c][i] = Error(ReadErrMsg) =>
                \/ i = Len(sent[c]) /\ pc[c] = "closing"
                \/ i + 1 = Len(sent[c]) /\ sent[c][i + 1] = Closed)
    /\ [][\A c \in Conns :
            /\ lastRead[c] = "error" =>
                  /\ writes'[c] = writes[c]
                  /\ devBytes'[c] = devBytes[c]
                  /\ lastRead'[c] = "error"
                  /\ pc'[c] \in {"closing", "exit", "done"}
                  /\ IsPrefix(write_ch[c], write_ch'[c]) \/ pc'[c] = "done"
            /\ (ReadStep(c) /\ lastRead'[c] = "error") =>
                  /\ sent'[c] = Append(sent[c], Error(ReadErrMsg))
                  /\ pc'[c] = "closing"
            /\ (ReadStep(c) /\ lastRead'[c] = "timeout") =>
                  /\ sent'[c] = sent[c]
                  /\ event_ch'[c] = event_ch[c]
                  /\ pc'[c] = "cc"]_vars

C7_Witness ==
    \E c \in Conns :
        /\ pc[c] = "exit"
        /\ lastRead[c] = "error"
        /\ write_ch[c] # <<>>
        /\ Len(received[c]) >= 3
        /\ received[c][Len(received[c]) - 1] = Error(ReadErrMsg)
        /\ received[c][Len(received[c])] = Closed

\* A termination trigger has occurred on a connection that acquired the device.
TerminationTriggered(c) ==
    /\ Acquired(c)
    /\ \/ handle[c] = "closed"
       \/ handle[c] = "dropped"
       \/ lastRead[c] = "error"

\* C8: under fair scheduling of the worker, every worker that acquired the
\* device eventually sends Closed once close() was called, the handle was
\* dropped, or a fatal read error occurred.
C8_EventuallyClosed ==
    \A c \in Conns : TerminationTriggered(c) ~> InSeq(Closed, sent[c])

C8_Witness ==
    \E c \in Conns :
        /\ why[c] = "close"
        /\ lastRead[c] = "timeout"
        /\ pc[c] = "done"
        /\ InSeq(Closed, sent[c])

\* Scenario C: the device was acquired, close() was called, no payload was
\* enqueued, no byte arrived and no read failed.
ScenarioC(c) ==
    /\ Acquired(c)
    /\ handle[c] = "closed"
    /\ accepted[c] = <<>>
    /\ devBytes[c] = <<>>
    /\ lastRead[c] # "error"

\* C9: in Scenario C, in every interleaving, the events are Opened directly
\* followed by Closed: nothing else is ever sent, and a consumer that has
\* drained the channel of the finished worker has exactly <<Opened, Closed>>.
C9_OpenedThenClosed ==
    \A c \in Conns :
        ScenarioC(c) =>
            /\ IsPrefix(sent[c], <<Opened, Closed>>)
            /\ pc[c] \in {"exit", "done"} => sent[c] = <<Opened, Closed>>
            /\ IsPrefix(received[c], <<Opened, Closed>>)
            /\ (event_rx[c] /\ pc[c] \in {"exit", "done"} /\ event_ch[c] = <<>>)
                  => received[c] = <<Opened, Closed>>

C9_Witness ==
    \E c \in Conns :
        /\ ScenarioC(c)
        /\ closeRes[c] = <<"Ok", "delivered">>
        /\ lastRead[c] = "timeout"
        /\ why[c] = "close"
        /\ pc[c] = "done"
        /\ received[c] = <<Opened, Closed>>

\* C10: close() returns Ok in every state of the worker and is always possible
\* on a held handle; it sends no event and changes nothing of the event channel,
\* and when the worker has terminated it changes nothing but the handle.
C10_CloseAlwaysOk ==
    /\ [](\A c \in Conns : handle[c] = "held" => ENABLED close(c))
    /\ [](\A c \in Conns : closeRes[c][1] \in {"none", "Ok"})
    /\ [][\A c \in Conns :
            (handle[c] = "held" /\ handle'[c] = "closed") =>
                /\ closeRes'[c][1] = "Ok"
                /\ sent'[c] = sent[c]
                /\ event_ch'[c] = event_ch[c]
                /\ received'[c] = received[c]
                /\ event_rx'[c] = event_rx[c]
                /\ pc'[c] = pc[c]
                /\ pc[c] = "done" => /\ close_ch'[c] = close_ch[c]
                                     /\ write_ch'[c] = write_ch[c]]_vars

C10_Witness ==
    \E c \in Conns :
        /\ closeRes[c] = <<"Ok", "lost">>
        /\ pc[c] = "done"
        /\ close_ch[c] = 0
        /\ received[c] = <<Opened, Error(ReadErrMsg), Closed>>

\* A step in which write() was called on the handle of c and returned.
WriteReturned(c) == accepted'[c] # accepted[c] \/ writeRes'[c] # writeRes[c]

\* C11: write() returns an error exactly when the worker thread has ended;
\* while the worker lives it returns Ok and queues the payload without sending
\* any event, and a failed device write changes no result of write().
C11_WriteErrIffTerminated ==
    /\ [](\A c \in Conns : writeRes[c] = "Err" => pc[c] = "done")
    /\ [][\A c \in Conns :
            /\ WriteReturned(c) =>
                  /\ writeRes'[c] = (IF pc[c] = "done" THEN "Err" ELSE "Ok")
                  /\ sent'[c] = sent[c]
                  /\ IF pc[c] = "done"
                       THEN accepted'[c] = accepted[c] /\ write_ch'[c] = write_ch[c]
                       ELSE /\ Len(accepted'[c]) = Len(accepted[c]) + 1
                            /\ write_ch'[c] =
                                 Append(write_ch[c], accepted'[c][Len(accepted'[c])])
            /\ FailedWriteStep(c) =>
                  /\ writeRes'[c] = writeRes[c]
                  /\ accepted'[c] = accepted[c]]_vars

C11_Witness ==
    \E c \in Conns :
        /\ writeRes[c] = "Err"
        /\ handle[c] = "held"
        /\ pc[c] = "done"
        /\ FailedWrites(c) # {}
        /\ InSeq(Error(WriteErrMsg), received[c])

\* C16 as stated: right after a read that returned successfully, with zero or
\* more bytes, the last event sent is the Data event carrying its bytes.
C16_EverySuccessfulReadOneData ==
    \A c \in Conns :
        (pc[c] = "cc" /\ lastRead[c] \in {"data", "zero"}) =>
            /\ sent[c] # <<>>
            /\ sent[c][Len(sent[c])].type = "Data"
            /\ lastRead[c] = "zero" => sent[c][Len(sent[c])].bytes = <<>>

\* C16 amended: a read that returns one or more bytes sends exactly one Data
\* event carrying exactly those bytes, a read that returns zero bytes sends
\* nothing, and a Data event is only ever sent by such a read, one per read.
C16_NonEmptyReadOneData ==
    [][\A c \in Conns :
        /\ (ReadStep(c) /\ lastRead'[c] = "data") =>
              /\ Len(devBytes'[c]) > Len(devBytes[c])
              /\ sent'[c] = Append(sent[c],
                    Data(SubSeq(devBytes'[c], Len(devBytes[c]) + 1, Len(devBytes'[c]))))
        /\ (ReadStep(c) /\ lastRead'[c] = "zero") =>
              /\ sent'[c] = sent[c]
              /\ devBytes'[c] = devBytes[c]
        /\ devBytes'[c] # devBytes[c] => ReadStep(c) /\ lastRead'[c] = "data"
        /\ (sent'[c] # sent[c] /\ sent'[c][Len(sent'[c])].type = "Data") =>
              /\ ReadStep(c)
              /\ lastRead'[c] = "data"
              /\ Len(sent'[c]) = Len(sent[c]) + 1
              /\ sent'[c][Len(sent'[c])].bytes # <<>>]_vars

C16_Witness ==
    \E c \in Conns :
        /\ pc[c] = "cc"
        /\ lastRead[c] = "zero"
        /\ Len(devBytes[c]) = 2
        /\ received[c] = <<Opened, Data(devBytes[c])>>

\* C17: once close() has sent its signal, the worker makes at most one more
\* write_all call and at most one more read call before it leaves the loop.
C17_CloseWithinOneIteration ==
    \A c \in Conns :
        /\ afterClose[c][1] <= 1
        /\ afterClose[c][2] <= 1
        /\ afterClose[c] # <<0, 0>> => Signalled(c)
        /\ afterClose[c][2] = 1 =>
              /\ pc[c] \in {"cc", "closing", "exit", "done"}
              /\ pc[c] = "cc" => close_ch[c] > 0

C17_Witness ==
    \E c \in Conns :
        /\ afterClose[c] = <<1, 1>>
        /\ why[c] = "close"
        /\ write_ch[c] # <<>>
        /\ InSeq(Closed, received[c])

\* C19: the payloads the worker has taken are a prefix of the accepted ones, in
\* order and without duplication; each is the head of the queue, and between
\* two takes the worker makes a device read.
C19_OnePayloadPerIteration ==
    /\ [](\A c \in Conns :
            /\ IsPrefix(Attempted(c), accepted[c])
            /\ Len(writes[c]) <= Len(accepted[c]))
    /\ [][\A c \in Conns :
            writes'[c] # writes[c] =>
                /\ pc[c] = "wr"
                /\ write_ch[c] # <<>>
                /\ Len(writes'[c]) = Len(writes[c]) + 1
                /\ writes'[c][Len(writes'[c])][1] = Head(write_ch[c])
                /\ SubSeq(writes'[c], 1, Len(writes[c])) = writes[c]
                /\ write_ch'[c] = Tail(write_ch[c])
                /\ lastOp[c] # "w"
                /\ lastOp'[c] = "w"
                /\ pc'[c] = "rd"]_vars

C19_Witness ==
    \E c \in Conns :
        /\ Len(writes[c]) = 2
        /\ Attempted(c) = <<1, 2>>
        /\ lastOp[c] = "w"
        /\ pc[c] = "rd"
        /\ lastRead[c] = "timeout"

\* C12: after any sequence of add_output_line calls the log holds at most
\* MAX_OUTPUT_LINES lines, and they are exactly the most recently appended
\* lines in their order: lines leave only from the front, only over the bound.
C12_LogBounded ==
    /\ Len(output_lines) <= MAX_OUTPUT_LINES
    /\ Len(output_lines) =
          (IF Len(appended) < MAX_OUTPUT_LINES THEN Len(appended) ELSE MAX_OUTPUT_LINES)
    /\ output_lines =
          SubSeq(appended, Len(appended) - Len(output_lines) + 1, Len(appended))

C12_Witness ==
    /\ Len(appended) = MAX_OUTPUT_LINES + 3
    /\ Len(output_lines) = MAX_OUTPUT_LINES
    /\ output_lines[1] = Note("4")
    /\ output_lines[MAX_OUTPUT_LINES] = DataLine(<<1>>)

\* The events of q that the log annotates: Opened, Closed and Error.
Annotated(q) == SelectSeq(q, LAMBDA ev : ev.type # "Data")

\* How many lines of the log q are the line l.
LinesEqual(l, q) == Cardinality({i \in Idx(q) : q[i] = l})

\* How many events folded so far, over all connections, are logged as line l.
FoldedAs(l) ==
    LET n1 == Cardinality({i \in Idx(received[1]) : LinesOf(received[1][i]) = <<l>>})
        n2 == Cardinality({i \in Idx(received[2]) : LinesOf(received[2][i]) = <<l>>})
    IN n1 + n2

AnnotationLines ==
    {Note("[opened]"), Note("[closed]"), ErrorLine(OpenErrMsg),
     ErrorLine(WriteErrMsg), ErrorLine(ReadErrMsg)}

\* C13: while the coordinator runs, every Opened, Closed and Error event a
\* worker has sent is logged as its annotated line or is still on its way to
\* the log (buffered for the next drain): none is ever lost before the log.
C13_EveryEventLogged ==
    app_res = "running" =>
        \A c \in Conns :
            /\ Len(Annotated(sent[c])) =
                  Len(Annotated(received[c])) + Len(Annotated(event_ch[c]))
            /\ \A l \in AnnotationLines : LinesEqual(l, appended) >= FoldedAs(l)

\* C14: no connection failure (failed open, failed write, fatal read error,
\* terminated worker) ends the coordinator's loop: send_input and
\* drain_serial_events never return Err, the program is never aborted by one.
C14_FailuresNeverAbort == app_res # "writer disconnected"

\* C15: at most one worker thread exists at any time: never are two workers
\* spawned by open_port both still running.
C15_AtMostOneWorker == Cardinality({c \in Conns : WorkerAlive(c)}) <= 1

\* The coordinator has folded the Closed event of connection c.
ClosedFolded(c) == InSeq(Closed, received[c])

\* C18: once the coordinator has folded the Closed event of a connection it
\* holds neither that connection's handle nor its receiver, and it never calls
\* write on that handle; the fold leaves is_open false; with no handle stored
\* nothing is written, and send_input appends only "[not open]".
C18_NoWriteAfterClosed ==
    /\ [](\A c \in Conns :
             ClosedFolded(c) =>
                 /\ serial_handle # c
                 /\ serial_event_rx # c
                 /\ handle[c] # "held"
                 /\ ~event_rx[c])
    /\ [][/\ \A c \in Conns :
                /\ ClosedFolded(c) => ~WriteReturned(c)
                /\ (~ClosedFolded(c) /\ ClosedFolded(c)') => ~is_open'
          /\ serial_handle = 0 =>
                /\ accepted' = accepted
                /\ writeRes' = writeRes
          /\ (serial_handle = 0 /\ keys' # keys /\ appended' # appended) =>
                appended' = Append(appended, Note("[not open]"))]_vars

\* Enter in the input pane after the Closed of connection 1 was folded.
C18_Witness ==
    /\ ClosedFolded(1)
    /\ input_buffer # <<>>
    /\ appended # <<>>
    /\ appended[Len(appended)] = Note("[not open]")

\* C20: between handlers, serial_handle is present iff serial_event_rx is
\* (and they belong to one connection); is_open implies both are present, and
\* that the Opened of the current receiver was folded and its Closed was not
\* (a toggle-close would have cleared the receiver).
C20_HandleRxOpenConsistent ==
    AppIdle =>
        /\ (serial_handle # 0) <=> (serial_event_rx # 0)
        /\ serial_handle = serial_event_rx
        /\ is_open =>
              /\ serial_handle # 0
              /\ serial_event_rx # 0
              /\ InSeq(Opened, received[serial_event_rx])
              /\ ~ClosedFolded(serial_event_rx)
              /\ event_rx[serial_event_rx]
              /\ handle[serial_handle] = "held"

\* The port was opened, toggled closed and opened again, and the second
\* connection's Opened has been folded.
C20_Witness ==
    /\ AppIdle
    /\ is_open
    /\ serial_handle = 2
    /\ InSeq(Note("[closing...]"), appended)

====
